---- MODULE Spec2Model ----
(***************************************************************************)
(* Model of src/telegram.py: the two ComfyUI nodes TelegramSend and        *)
(* TelegramReply.  One behaviour of the model is one invocation of one     *)
(* node's run method.  The Telegram Bot API is the environment: every      *)
(* HTTP response is an input drawn from a bounded set.                     *)
(*                                                                         *)
(* Python values are encoded as follows.                                   *)
(*   Optional[x]   <<>> for None (or an absent dict key), <<x>> otherwise  *)
(*   str           a sequence of characters                                *)
(*   tensor        a non-empty sequence (batch) of images                  *)
(*   image         [px |-> p, ok |-> b]: one channel value in tenths       *)
(*                 (p = 10 is 1.0) and whether PIL can encode the array    *)
(***************************************************************************)
EXTENDS Integers, Sequences, FiniteSets, TLC

VARIABLES
    op,                     \* which node runs: "send" or "reply"
    images,                 \* combined_tensors: the five optional image slots
    text,                   \* caption (send) or text (reply)
    as_document,            \* as_document
    reply_to,               \* reply_to: the forwarded-message marker
    direct,                 \* reply_to_message_id as the caller passed it
    reply_to_message_id,    \* the local variable of TelegramReply.run
    offset,                 \* the local variable offset
    update,                 \* the loop variable update: <<>> while unbound
    iter,                   \* iterations of "for _ in range(0, 30)" completed
    pc,                     \* "run" while the method executes, "done" after
    outcome,                \* "running", "returned" or the exception raised
    result,                 \* the returned tuple, <<>> when nothing returned
    polls,                  \* number of getUpdates requests issued
    sleeps,                 \* number of time.sleep(1) calls performed
    requests,               \* delivery requests issued, in order
    delivered,              \* HTTP status answered to the delivery request
    pollLog                 \* what the polls of this invocation showed

vars == <<op, images, text, as_document, reply_to, direct, reply_to_message_id,
          offset, update, iter, pc, outcome, result, polls, sleeps, requests,
          delivered, pollLog>>

----------------------------------------------------------------------------
(* Bounds of the model. *)
MaxTextLen == 1
MaxUpdateId == 2
MaxMsgId == 2
MaxMarker == 2
MaxBatch == 2

(* Program constants. *)
MaxPolls == 30
InitialOffset == -1
NumSlots == 5

None == <<>>
Some(x) == <<x>>

Max(a, b) == IF a >= b THEN a ELSE b
Min(a, b) == IF a <= b THEN a ELSE b

SeqsUpTo(S, n) == UNION {[1..k -> S] : k \in 0..n}

----------------------------------------------------------------------------
(* Python semantics used by the code. *)

\* bool(x) of an Optional[int]: None and 0 are falsy.
Truthy(x) == x # None /\ x[1] # 0

Chars == {" ", "a"}
IsSpace(c) == c = " "

RECURSIVE LStrip(_)
LStrip(s) == IF s # <<>> /\ IsSpace(Head(s)) THEN LStrip(Tail(s)) ELSE s

RECURSIVE RStrip(_)
RStrip(s) ==
    IF s # <<>> /\ IsSpace(s[Len(s)]) THEN RStrip(SubSeq(s, 1, Len(s) - 1)) ELSE s

\* str.strip()
Strip(s) == RStrip(LStrip(s))

\* The status check left out: every response is taken as a success.
RaisesNever(status) == FALSE

\* requests.Response.raise_for_status raises HTTPError for 4xx and 5xx.
RaisesForStatus(status) == status >= 400 /\ status < 600

----------------------------------------------------------------------------
(* TelegramSend._tensor_to_buffer and TelegramSend._tensors_to_media_group. *)

\* PIL cannot encode every array: Image.fromarray raises on the others.
Encodable(img) == img.ok

\* (tensor * 255.0).clip(0, 255).astype(np.uint8), the pixel given in tenths.
TensorToBuffer(img) == [png |-> Min(255, Max(0, (img.px * 255) \div 10))]

\* The file name without the index: every image gets the same name.
FileNameFixed(idx) == <<"img", 0, ".png">>

\* f"img{idx}.png"
FileName(idx) == <<"img", idx, ".png">>

\* f"attach://{fname}"
AttachRef(fname) == <<"attach://">> \o fname

\* The caption put on every item instead of the first only.
MediaItemCaptioned(idx, caption, asDocument) ==
    [type       |-> IF asDocument THEN "document" ELSE "photo",
     media      |-> AttachRef(FileName(idx)),
     caption    |-> IF caption # <<>> THEN Some(caption) ELSE None,
     parse_mode |-> IF caption # <<>> THEN Some("HTML") ELSE None]

MediaItem(idx, caption, asDocument) ==
    [type       |-> IF asDocument THEN "document" ELSE "photo",
     media      |-> AttachRef(FileName(idx)),
     caption    |-> IF idx = 0 /\ caption # <<>> THEN Some(caption) ELSE None,
     parse_mode |-> IF idx = 0 /\ caption # <<>> THEN Some("HTML") ELSE None]

\* The body of "for idx, tensor in enumerate(images)", from index idx on.
RECURSIVE MediaLoop(_, _, _, _, _, _)
MediaLoop(imgs, idx, caption, asDocument, media, files) ==
    IF idx >= Len(imgs) THEN [media |-> media, files |-> files]
    ELSE MediaLoop(imgs, idx + 1, caption, asDocument,
                   Append(media, MediaItem(idx, caption, asDocument)),
                   (FileName(idx) :> TensorToBuffer(imgs[idx + 1])) @@ files)

TensorsToMediaGroup(imgs, caption, asDocument) ==
    MediaLoop(imgs, 0, caption, asDocument, <<>>, <<>>)

\* tensors = [x[0] for x in combined_tensors if x is not None]
RECURSIVE Tensors(_)
Tensors(slots) ==
    IF slots = <<>> THEN <<>>
    ELSE IF Head(slots) = None THEN Tensors(Tail(slots))
    ELSE <<Head(slots)[1][1]>> \o Tensors(Tail(slots))

\* The emptiness check left out.
NothingToSendUnchecked(imgs) == FALSE

\* "if not tensors"
NothingToSend(imgs) == imgs = <<>>

\* "if text.strip()"
HasText(t) == Strip(t) # <<>>

AllEncodable(imgs) == \A i \in 1..Len(imgs) : Encodable(imgs[i])

----------------------------------------------------------------------------
(* The delivery requests. *)

SendMediaGroupRequest(replyTarget, isReply, group) ==
    [method                      |-> "sendMediaGroup",
     reply_to_message_id         |-> replyTarget,
     allow_sending_without_reply |-> isReply,
     media                       |-> group.media,
     files                       |-> group.files,
     text                        |-> None]

\* The text reply posted without the allow_sending_without_reply field.
SendMessageRequestStrict(replyTarget, body) ==
    [method                      |-> "sendMessage",
     reply_to_message_id         |-> replyTarget,
     allow_sending_without_reply |-> FALSE,
     media                       |-> <<>>,
     files                       |-> <<>>,
     text                        |-> Some(body)]

SendMessageRequest(replyTarget, body) ==
    [method                      |-> "sendMessage",
     reply_to_message_id         |-> replyTarget,
     allow_sending_without_reply |-> TRUE,
     media                       |-> <<>>,
     files                       |-> <<>>,
     text                        |-> Some(body)]

----------------------------------------------------------------------------
(* The environment: caller inputs and Bot API responses. *)

Texts == SeqsUpTo(Chars, MaxTextLen)

GoodImage == [px |-> 10, ok |-> TRUE]
DimImage == [px |-> 4, ok |-> TRUE]
BadImage == [px |-> 10, ok |-> FALSE]

\* The image_1..image_5 arguments the model calls the nodes with.
SlotInputs ==
    { <<None, None, None, None, None>>,
      <<Some(<<DimImage>>), None, None, None, Some(<<GoodImage>>)>>,
      <<None, Some(<<BadImage>>), None, None, None>> }

Markers == 1..MaxMarker

\* reply_to as the model's caller passes it.
ReplyToInputs == {1}
MsgIds == 1..MaxMsgId
UpdateIds == 1..MaxUpdateId

\* reply_to_message_id as a caller can pass it: omitted, or any integer.
DirectInputs == {None} \cup {Some(n) : n \in (0 - 1)..MaxMsgId}

\* update["message"]: absent, or a message that may carry forward_from_message_id.
Messages ==
    [forward_from_message_id : {None} \cup {Some(m) : m \in Markers},
     message_id : MsgIds]

Updates == [update_id : UpdateIds, message : {None} \cup {Some(m) : m \in Messages}]

\* A getUpdates result: the Bot API never repeats an update_id within a batch.
Batches ==
    {b \in SeqsUpTo(Updates, MaxBatch) :
        \A i, j \in 1..Len(b) : i # j => b[i].update_id # b[j].update_id}

Statuses == {200, 409}

ErrorStatuses == {s \in Statuses : s >= 400}

\* A getUpdates response: its HTTP status and the "result" key of its JSON body.
\* The Bot API answers 200 with a result list, or an error status with a body
\* {"ok": false, "error_code": ..., "description": ...} that has no "result".
PollResponses ==
    {[status |-> 200, result |-> Some(b)] : b \in Batches}
    \cup {[status |-> s, result |-> None] : s \in ErrorStatuses}

\* A sendMediaGroup or sendMessage response: its status and the "result" of its
\* body, which holds the sent message either in a list (sendMediaGroup) or as
\* the object itself (sendMessage).
DeliveryResponses ==
    [status : Statuses, shape : {"list", "object"}, message_id : MsgIds]

----------------------------------------------------------------------------
(* The update scan of TelegramReply.run. *)

Matches(u, marker) ==
    /\ u.message # None
    /\ u.message[1].forward_from_message_id = Some(marker)

\* The scan stopping at its first match instead of running to the end.
RECURSIVE ScanFirstMatch(_, _, _)
ScanFirstMatch(updates, target, marker) ==
    IF updates = <<>> THEN target
    ELSE IF Matches(Head(updates), marker)
         THEN Some(Head(updates).message[1].message_id)
         ELSE ScanFirstMatch(Tail(updates), target, marker)

\* The scan taking every forwarded message for a match, whatever its origin.
RECURSIVE ScanAnyForward(_, _, _)
ScanAnyForward(updates, target, marker) ==
    IF updates = <<>> THEN target
    ELSE ScanAnyForward(Tail(updates),
                        IF /\ Head(updates).message # None
                           /\ Head(updates).message[1].forward_from_message_id # None
                        THEN Some(Head(updates).message[1].message_id)
                        ELSE target,
                        marker)

\* "for update in updates": the value of reply_to_message_id after the scan.
RECURSIVE ScanUpdates(_, _, _)
ScanUpdates(updates, target, marker) ==
    IF updates = <<>> THEN target
    ELSE ScanUpdates(Tail(updates),
                     IF Matches(Head(updates), marker)
                     THEN Some(Head(updates).message[1].message_id)
                     ELSE target,
                     marker)

\* The loop variable update after "for update in updates".
LoopVariable(updates, before) ==
    IF updates = <<>> THEN before ELSE Some(updates[Len(updates)])

\* The offset set to the last update's id without the max.
AdvanceOffsetLastOnly(u, current) == u.update_id

\* offset = max(update["update_id"], offset)
AdvanceOffset(u, current) == Max(u.update_id, current)

\* The loop without its "break": it only ends when the range is exhausted.
LoopExitsOnlyWhenExhausted(target, n) == n >= MaxPolls

\* "if reply_to_message_id: break", or range(0, 30) exhausted.
LoopExits(target, n) == Truthy(target) \/ n >= MaxPolls

\* message_ids of the matching updates of a batch, in batch order.
MatchIds(updates, marker) ==
    LET idx == {i \in 1..Len(updates) : Matches(updates[i], marker)}
        RECURSIVE Pick(_)
        Pick(i) == IF i > Len(updates) THEN <<>>
                   ELSE IF i \in idx
                        THEN <<updates[i].message[1].message_id>> \o Pick(i + 1)
                        ELSE Pick(i + 1)
    IN Pick(1)

BatchMax(updates) ==
    LET ids == {updates[i].update_id : i \in 1..Len(updates)}
    IN IF ids = {} THEN 0 ELSE CHOOSE m \in ids : \A n \in ids : n <= m

EmptyLog ==
    [seen     |-> 0,      \* largest update_id returned so far (0: none)
     status   |-> None,   \* HTTP status of the latest poll
     batchMax |-> 0,      \* largest update_id of the latest batch (0: empty)
     matches  |-> <<>>,   \* message_ids of the latest batch's matching updates
     matchAt  |-> 0,      \* the poll whose batch first held a match (0: none)
     erred    |-> FALSE]  \* some poll was answered with an error status

----------------------------------------------------------------------------
(* Initial states: the arguments of one call. *)

InitSend ==
    /\ op = "send"
    /\ images \in SlotInputs
    /\ text \in Texts
    /\ as_document \in BOOLEAN
    /\ reply_to = 0
    /\ direct = None

InitReply ==
    /\ op = "reply"
    /\ images \in SlotInputs
    /\ text \in Texts
    /\ as_document \in BOOLEAN
    /\ reply_to \in ReplyToInputs
    /\ direct \in DirectInputs

InitLocals ==
    /\ reply_to_message_id = direct
    /\ offset = InitialOffset
    /\ update = None
    /\ iter = 0
    /\ pc = "run"
    /\ outcome = "running"
    /\ result = <<>>
    /\ polls = 0
    /\ sleeps = 0
    /\ requests = <<>>
    /\ delivered = None
    /\ pollLog = EmptyLog

Init ==
    /\ InitSend \/ InitReply
    /\ InitLocals

----------------------------------------------------------------------------
(* TelegramSend.run *)

\* resp.json()["result"][0] is the first element of a list; on a JSON object
\* the subscript 0 is a missing key.
Indexable(resp) == resp.shape = "list"

\* requests.post(...), resp.raise_for_status(), return (..., message_id)
Deliver(request, resp, head) ==
    /\ requests' = Append(requests, request)
    /\ delivered' = Some(resp.status)
    /\ IF RaisesForStatus(resp.status)
       THEN outcome' = "HTTPError" /\ UNCHANGED result
       ELSE IF ~Indexable(resp)
       THEN outcome' = "KeyError" /\ UNCHANGED result
       ELSE outcome' = "returned" /\ result' = head \o <<resp.message_id>>

Raise(exception) ==
    /\ outcome' = exception
    /\ UNCHANGED <<requests, delivered, result>>

SendRun ==
    /\ pc = "run"
    /\ op = "send"
    /\ \E resp \in DeliveryResponses :
        LET tensors == Tensors(images) IN
        /\ pc' = "done"
        /\ IF NothingToSend(tensors) THEN Raise("ValueError")
           ELSE IF ~AllEncodable(tensors) THEN Raise("TypeError")
           ELSE Deliver(SendMediaGroupRequest(None, FALSE,
                            TensorsToMediaGroup(tensors, text, as_document)),
                        resp, <<>>)
    /\ UNCHANGED <<op, images, text, as_document, reply_to, direct,
                   reply_to_message_id, offset, update, iter, polls, sleeps,
                   pollLog>>

----------------------------------------------------------------------------
(* TelegramReply.run: one iteration of the polling loop that reaches the   *)
(* getUpdates request.                                                      *)

ReplyPoll ==
    /\ pc = "run"
    /\ op = "reply"
    /\ ~LoopExits(reply_to_message_id, iter)
    /\ \E resp \in PollResponses :
        LET log == [pollLog EXCEPT !.status = Some(resp.status),
                                   !.erred = @ \/ resp.status \in ErrorStatuses] IN
        /\ polls' = polls + 1
        /\ IF resp.result = None
           THEN \* r1_1.json()["result"] raises KeyError
                /\ pc' = "done"
                /\ outcome' = "KeyError"
                /\ pollLog' = log
                /\ UNCHANGED <<reply_to_message_id, offset, update, iter, sleeps>>
           ELSE LET updates == resp.result[1]
                    u == LoopVariable(updates, update)
                IN
                /\ reply_to_message_id' =
                       ScanUpdates(updates, reply_to_message_id, reply_to)
                /\ update' = u
                /\ pollLog' = [log EXCEPT
                       !.seen = Max(@, BatchMax(updates)),
                       !.batchMax = BatchMax(updates),
                       !.matches = MatchIds(updates, reply_to),
                       !.matchAt = IF @ = 0 /\ MatchIds(updates, reply_to) # <<>>
                                   THEN polls + 1 ELSE @]
                /\ IF u = None
                   THEN \* update is unbound: max(update["update_id"], ...) raises
                        /\ pc' = "done"
                        /\ outcome' = "UnboundLocalError"
                        /\ UNCHANGED <<offset, iter, sleeps>>
                   ELSE /\ offset' = AdvanceOffset(u[1], offset)
                        /\ sleeps' = sleeps + 1
                        /\ iter' = iter + 1
                        /\ UNCHANGED <<pc, outcome>>
    /\ UNCHANGED <<op, images, text, as_document, reply_to, direct, result,
                   requests, delivered>>

(* TelegramReply.run: the loop is left and the message is dispatched. *)

ReplyDispatch ==
    /\ pc = "run"
    /\ op = "reply"
    /\ LoopExits(reply_to_message_id, iter)
    /\ \E resp \in DeliveryResponses :
        LET tensors == Tensors(images) IN
        /\ pc' = "done"
        /\ IF ~NothingToSend(tensors)
           THEN IF ~AllEncodable(tensors) THEN Raise("TypeError")
                ELSE Deliver(SendMediaGroupRequest(reply_to_message_id, TRUE,
                                 TensorsToMediaGroup(tensors, text, as_document)),
                             resp, <<reply_to_message_id>>)
           ELSE IF HasText(text)
           THEN Deliver(SendMessageRequest(reply_to_message_id, text),
                        resp, <<reply_to_message_id>>)
           ELSE Raise("ValueError")
    /\ UNCHANGED <<op, images, text, as_document, reply_to, direct,
                   reply_to_message_id, offset, update, iter, polls, sleeps,
                   pollLog>>

Next == SendRun \/ ReplyPoll \/ ReplyDispatch

Spec == Init /\ [][Next]_vars

(* Every network call returns: a step that is enabled is eventually taken. *)

SpecLive == Init /\ [][Next]_vars /\ WF_vars(Next)

(* TelegramSend.run alone, over every way of filling the five image slots. *)

SlotValues == {None, Some(<<GoodImage>>), Some(<<DimImage>>), Some(<<BadImage>>)}

InitSendAll ==
    /\ op = "send"
    /\ images \in [1..NumSlots -> SlotValues]
    /\ text \in Texts
    /\ as_document \in BOOLEAN
    /\ reply_to = 0
    /\ direct = None
    /\ InitLocals

NextSend == SendRun

SpecSend == InitSendAll /\ [][NextSend]_vars

TypeOK ==
    /\ op \in {"send", "reply"}
    /\ pc \in {"run", "done"}
    /\ iter \in 0..MaxPolls
    /\ polls \in 0..MaxPolls
    /\ sleeps \in 0..MaxPolls
    /\ Len(requests) \in 0..1

----------------------------------------------------------------------------
(* Properties. *)

Done == pc = "done"
Reply == op = "reply"
ResolveMode == Reply /\ direct = None
Last(seq) == seq[Len(seq)]

\* The loop ran all its iterations and no batch held a match.
Exhausted == ResolveMode /\ iter = MaxPolls /\ pollLog.matchAt = 0

\* C1: in resolve mode, when none of the 30 polled batches holds a message
\* forwarded from reply_to, the call fails and issues no delivery request,
\* in particular none with reply_to_message_id = None.
C1_UnresolvedTargetFails ==
    Exhausted =>
        /\ requests = <<>>
        /\ Done => outcome # "returned"

\* C2 as stated: in direct mode, for any integer the caller supplies as
\* reply_to_message_id, no getUpdates call is issued and no sleep is performed.
C2_DirectNeverPollsAnyInteger ==
    (Reply /\ direct # None) => (polls = 0 /\ sleeps = 0)

\* C2 amended: in direct mode, for any non-zero integer the caller supplies as
\* reply_to_message_id, no getUpdates call is issued and no sleep is performed,
\* up to and including the dispatch.
C2_DirectNeverPolls ==
    (Reply /\ direct # None /\ direct[1] # 0) =>
        /\ polls = 0
        /\ sleeps = 0
        /\ iter = 0
        /\ reply_to_message_id = direct

C2_Witness ==
    /\ Reply /\ Done
    /\ direct # None /\ direct[1] < 0
    /\ Len(requests) = 1
    /\ requests[1].reply_to_message_id = direct

\* C3 as stated: when the batch of poll k holds an update whose message is
\* forwarded from reply_to, the resolved target is that message's message_id,
\* no getUpdates call follows poll k, and the dispatch uses and returns it.
C3_AnyMatchResolves ==
    pollLog.matchAt > 0 =>
        /\ polls = pollLog.matchAt
        /\ \A i \in 1..Len(pollLog.matches) :
            /\ reply_to_message_id = Some(pollLog.matches[i])
            /\ \A r \in 1..Len(requests) :
                requests[r].reply_to_message_id = Some(pollLog.matches[i])
            /\ outcome = "returned" => result[1] = Some(pollLog.matches[i])

\* C3 amended: when the batch of poll k holds updates whose message is
\* forwarded from reply_to, the resolved target is the message_id of the last
\* of them in batch order, no getUpdates call follows poll k, and the dispatch
\* uses and returns that target.
C3_LastMatchResolves ==
    pollLog.matchAt > 0 =>
        /\ polls = pollLog.matchAt
        /\ reply_to_message_id = Some(Last(pollLog.matches))
        /\ \A r \in 1..Len(requests) :
            requests[r].reply_to_message_id = Some(Last(pollLog.matches))
        /\ outcome = "returned" => result[1] = Some(Last(pollLog.matches))

C3_Witness ==
    /\ ResolveMode /\ Done
    /\ pollLog.matchAt = 1
    /\ Len(pollLog.matches) = 2
    /\ pollLog.matches[1] # pollLog.matches[2]
    /\ Len(requests) = 1
    /\ outcome = "returned"
    /\ result[1] = Some(pollLog.matches[2])

\* C4: a resolve-mode invocation never issues more than 30 getUpdates calls,
\* and when every poll is answered and no update ever matches the marker it
\* issues exactly 30 of them.
C4_ExactlyThirtyPolls ==
    /\ polls <= MaxPolls
    /\ (ResolveMode /\ Done /\ pollLog.matchAt = 0 /\ ~pollLog.erred) =>
            polls = MaxPolls

\* C5: in resolve mode, when no update ever matches the marker, exactly 29
\* sleeps are performed: the 30th iteration does not sleep.
C5_TwentyNineSleeps ==
    (Exhausted /\ polls = MaxPolls) => sleeps = MaxPolls - 1

\* C6: once an update with update_id U has been returned by a poll, every
\* later getUpdates call of the invocation requests an offset greater than U.
C6_OffsetPastSeenUpdates ==
    [][(polls' = polls + 1 /\ pollLog.seen > 0) => offset > pollLog.seen]_vars

\* C7: TelegramSend.run with all five image slots absent fails with the
\* "nothing to send" ValueError and issues no network call.
C7_SendNothingFails ==
    (op = "send" /\ Done /\ \A i \in 1..NumSlots : images[i] = None) =>
        /\ outcome = "ValueError"
        /\ requests = <<>>
        /\ delivered = None
        /\ polls = 0
        /\ result = <<>>

C7_Witness ==
    /\ op = "send" /\ Done
    /\ \A i \in 1..NumSlots : images[i] = None
    /\ text # <<>>
    /\ outcome = "ValueError"

\* text is empty or consists of whitespace only
Blank(t) == \A i \in 1..Len(t) : IsSpace(t[i])

\* C8: TelegramReply.run with no images and empty or whitespace-only text
\* fails with the "nothing to send" ValueError, in direct and in resolve mode,
\* and issues no delivery request.
C8_ReplyNothingFails ==
    (Reply /\ Done /\ ~pollLog.erred
        /\ (direct = None \/ Truthy(direct))
        /\ (\A i \in 1..NumSlots : images[i] = None) /\ Blank(text)) =>
        /\ outcome = "ValueError"
        /\ requests = <<>>

\* C9: a delivery request answered with an error status makes the call fail
\* with HTTPError; the request is not repeated and nothing is returned.
C9_DeliveryErrorNotRetried ==
    (delivered # None /\ delivered[1] # 200) =>
        /\ Done
        /\ outcome = "HTTPError"
        /\ Len(requests) = 1
        /\ result = <<>>

C9_Witness ==
    /\ ResolveMode /\ Done
    /\ pollLog.matchAt > 0
    /\ delivered = Some(409)
    /\ Len(requests) = 1
    /\ requests[1].method = "sendMessage"

\* C10: a getUpdates poll answered with an error status makes the reply call
\* fail with HTTPError at that poll: no further poll, no delivery request.
C10_PollErrorIsDeliveryError ==
    pollLog.erred =>
        /\ Done
        /\ outcome = "HTTPError"
        /\ requests = <<>>

\* C11: when the encoding of a supplied image fails, the call fails with that
\* error before any network call: no getUpdates, sendMediaGroup or sendMessage
\* request precedes the failure.
C11_EncodingFailsBeforeNetwork ==
    outcome = "TypeError" =>
        /\ polls = 0
        /\ requests = <<>>

\* C12: every delivery request of TelegramReply.run, sendMediaGroup or
\* sendMessage, with a given or a resolved target, carries
\* allow_sending_without_reply = true.
C12_ReplyAllowsSendingWithoutReply ==
    Reply => \A r \in 1..Len(requests) :
                requests[r].allow_sending_without_reply = TRUE

C12_Witness ==
    /\ ResolveMode /\ Done
    /\ pollLog.matchAt = 2
    /\ Len(requests) = 1
    /\ requests[1].method = "sendMessage"
    /\ requests[1].reply_to_message_id = Some(2)
    /\ requests[1].allow_sending_without_reply = TRUE

\* The media group a sendMediaGroup request of TelegramSend.run carries.
SentGroup == requests[1]
SentImages == Tensors(images)

\* C13: for N images, 1 <= N <= 5, _tensors_to_media_group returns N media
\* items and N payload entries; item i refers to attach://img{i}.png and the
\* payload key img{i}.png holds the encoded bytes of image i, in input order.
C13_MediaGroupMatchesImages ==
    (op = "send" /\ requests # <<>>) =>
        LET n == Len(SentImages) IN
        /\ n \in 1..NumSlots
        /\ Len(SentGroup.media) = n
        /\ Cardinality(DOMAIN SentGroup.files) = n
        /\ \A i \in 0..(n - 1) :
            /\ SentGroup.media[i + 1].media = <<"attach://", "img", i, ".png">>
            /\ <<"img", i, ".png">> \in DOMAIN SentGroup.files
            /\ SentGroup.files[<<"img", i, ".png">>] =
                   TensorToBuffer(SentImages[i + 1])

C13_Witness ==
    /\ op = "send" /\ Done
    /\ Len(SentImages) = NumSlots
    /\ SentImages[2] # SentImages[4]
    /\ Len(requests) = 1
    /\ SentGroup.files[<<"img", 1, ".png">>] # SentGroup.files[<<"img", 3, ".png">>]

\* C14: item 0 of the media list carries the caption, with parse_mode HTML,
\* exactly when the caption is not the empty string; no later item carries a
\* caption or a parse_mode, whatever N and as_document are.
C14_CaptionOnFirstItemOnly ==
    (op = "send" /\ requests # <<>>) =>
        /\ text # <<>> => /\ SentGroup.media[1].caption = Some(text)
                          /\ SentGroup.media[1].parse_mode = Some("HTML")
        /\ text = <<>> => /\ SentGroup.media[1].caption = None
                          /\ SentGroup.media[1].parse_mode = None
        /\ \A i \in 2..Len(SentGroup.media) :
            /\ SentGroup.media[i].caption = None
            /\ SentGroup.media[i].parse_mode = None
        /\ \A i \in 1..Len(SentGroup.media) :
            SentGroup.media[i].type = IF as_document THEN "document" ELSE "photo"

C14_Witness ==
    /\ op = "send" /\ Done
    /\ as_document
    /\ text = <<" ">>
    /\ Len(requests) = 1
    /\ Len(SentGroup.media) = 3
    /\ SentGroup.media[1].caption = Some(<<" ">>)
    /\ SentGroup.media[3].caption = None

\* A step that issues a getUpdates call and gets a result list back.
PollAnswered == polls' = polls + 1 /\ pollLog'.status = Some(200)

\* C15: after a non-empty batch the offset is the maximum of the previous
\* offset and the update_ids of all updates of the batch, in whatever order
\* the batch lists them.
C15_OffsetIsBatchMaximum ==
    [][(PollAnswered /\ pollLog'.batchMax > 0) =>
            offset' = Max(offset, pollLog'.batchMax)]_vars

\* C16: the first getUpdates call of an invocation is sent offset -1, and the
\* offsets sent with successive getUpdates calls never decrease.
C16_OffsetStartsAtMinusOneAndGrows ==
    [][(polls' = polls + 1) =>
            /\ polls = 0 => offset = InitialOffset
            /\ offset' >= offset]_vars

C16_Witness ==
    /\ ResolveMode /\ pc = "run"
    /\ polls = 2
    /\ offset = 2
    /\ update # None /\ update[1].update_id = 1
    /\ pollLog.batchMax = 1

\* C17: a batch with several updates forwarded from reply_to resolves the
\* target to the message_id of the last of them in batch order; a batch
\* without such an update leaves the resolved target as it was.
C17_ScanKeepsLastMatch ==
    [][PollAnswered =>
            IF pollLog'.matches = <<>>
            THEN reply_to_message_id' = reply_to_message_id
            ELSE reply_to_message_id' = Some(Last(pollLog'.matches))]_vars

C17_Witness ==
    /\ ResolveMode /\ pc = "run"
    /\ pollLog.matchAt = 2
    /\ Len(pollLog.matches) = 2
    /\ pollLog.matches[1] # pollLog.matches[2]
    /\ reply_to_message_id = Some(pollLog.matches[2])
    /\ requests = <<>>

Issued(method) == \E r \in 1..Len(requests) : requests[r].method = method
ImagePresent == \E i \in 1..NumSlots : images[i] # None

\* C18: an invocation issues at most one delivery request; in reply, with
\* images that encode, sendMediaGroup is issued exactly when an image is
\* present and sendMessage exactly when no image is present and the text is
\* not blank.
C18_OneDeliveryPerInvocation ==
    (Done /\ AllEncodable(Tensors(images))) =>
        /\ Len(requests) <= 1
        /\ Reply =>
            /\ Issued("sendMediaGroup") <=> ImagePresent
            /\ Issued("sendMessage") <=> (~ImagePresent /\ ~Blank(text))

\* C20: a poll that returns an empty batch leaves the offset unchanged and
\* the loop goes on to its next iteration, for the first poll as for later
\* ones.
C20_EmptyBatchContinues ==
    [][(PollAnswered /\ pollLog'.batchMax = 0) =>
            /\ offset' = offset
            /\ pc' = "run"
            /\ iter' = iter + 1]_vars

\* The failures an invocation can end with at the dispatch: nothing to send,
\* an image that does not encode, a delivery answered with an error status.
Failures == {"ValueError", "TypeError", "HTTPError"}

\* The invocation returned the pair (reply target, reply message id) after one
\* delivery request, or it failed and returned nothing.
Ends ==
    \/ /\ outcome = "returned"
       /\ Len(result) = 2
       /\ result[1] = reply_to_message_id
       /\ Len(requests) = 1
    \/ /\ outcome \in Failures
       /\ result = <<>>

\* The Dispatch stage: the target was given or resolved, or the polls are
\* exhausted, and the invocation has not ended yet.
AtDispatch == pc = "run" /\ LoopExits(reply_to_message_id, iter)

\* C19: when every network call returns, an invocation of TelegramReply.run
\* eventually reaches Done, with the pair (reply target, reply message id)
\* returned or with a failure, and it enters Done only from the Dispatch
\* stage, whatever batches the polls return.
C19_ReplyReachesDoneThroughDispatch ==
    /\ Reply => <>(Done /\ Ends)
    /\ [][(Reply /\ ~Done /\ Done') => AtDispatch]_vars

====
